---- MODULE Spec2Model ----
(***************************************************************************)
(* A model of the rule-evaluation steps of ifc-gherkin-rules               *)
(* (features/steps/steps.py and features/steps/thens/relations.py).        *)
(*                                                                         *)
(* One behaviour is one scenario: a sequence of Given steps that transform *)
(* the behave context (a stack of layers holding `instances` and           *)
(* `applicable`), followed by Then steps that build an error list and hand *)
(* it to handle_errors.  The IFC file is chosen in Init and never changes. *)
(***************************************************************************)
EXTENDS Integers, Sequences, FiniteSets, TLC

VARIABLES
    model,      \* the parsed IFC file (context.model), read-only
    config,     \* context.config.format / context.error_on_passed_rule
    stack,      \* context._stack: layers, index 1 is the top-most layer
    last,       \* label and arguments of the step that ran last
    errors,     \* the list the last Then step handed to handle_errors
    outcome,    \* of the last step: "none" (a Given step), "passed", "failed"
                \* (the assertion of handle_errors), "format_exception" (raised
                \* in handle_errors while formatting), "exception" (raised by
                \* the step itself)
    detail,     \* the assertion message of handle_errors
    nsteps,     \* Given steps executed so far in the scenario
    loop        \* position of the containment check inside its loops

vars == <<model, config, stack, last, errors, outcome, detail, nsteps, loop>>

(***************************************************************************)
(* Bounds                                                                  *)
(***************************************************************************)
NumInst == 3        \* product instances in the file
MaxGiven == 3       \* Given steps of one scenario

Inst == 1 .. NumInst

(***************************************************************************)
(* Python values.  Every value is a record of one shape so that any two    *)
(* values can be compared: k is the kind, n / s / t carry the payload.     *)
(***************************************************************************)
V(k, n, s, t) == [k |-> k, n |-> n, s |-> s, t |-> t]
None == V("none", 0, "", <<>>)
Ent(i) == V("ent", i, "", <<>>)
Str(x) == V("str", 0, x, <<>>)
Num(i) == V("int", i, "", <<>>)
Bool(b) == V("bool", IF b THEN 1 ELSE 0, "", <<>>)
Tup(q) == V("tup", 0, "", q)

\* bool(x) of Python
Truthy(x) ==
    CASE x.k = "none" -> FALSE
      [] x.k = "str" -> x.s # ""
      [] x.k = "int" -> x.n # 0
      [] x.k = "bool" -> x.n # 0
      [] x.k = "tup" -> x.t # <<>>
      [] OTHER -> TRUE

\* any(values)
AnyTruthy(values) == \E i \in 1 .. Len(values) : Truthy(values[i])

\* x == y of Python (True == 1, otherwise structural)
PyEq(x, y) ==
    IF x.k \in {"int", "bool"} /\ y.k \in {"int", "bool"} THEN x.n = y.n ELSE x = y

\* [f(x) for x in q]
MapSeq(q, f(_)) ==
    LET F[i \in 0 .. Len(q)] == IF i = 0 THEN <<>> ELSE Append(F[i - 1], f(q[i]))
    IN F[Len(q)]

\* list(range(1, n + 1))
Indices(n) ==
    LET F[i \in 0 .. n] == IF i = 0 THEN <<>> ELSE Append(F[i - 1], i)
    IN F[n]

\* list(filter(p, q))
FilterSeq(q, p(_)) ==
    LET F[i \in 0 .. Len(q)] ==
            IF i = 0 THEN <<>>
            ELSE IF p(q[i]) THEN Append(F[i - 1], q[i]) ELSE F[i - 1]
    IN F[Len(q)]

RECURSIVE Flatten(_)
\* [x for r in q for x in r]
Flatten(q) == IF q = <<>> THEN <<>> ELSE Head(q) \o Flatten(Tail(q))

SeqRange(q) == {q[i] : i \in 1 .. Len(q)}

(***************************************************************************)
(* The IFC file.  Products are the instances 1..NumInst; the relationship  *)
(* instances IfcRelNests, IfcRelAggregates and                             *)
(* IfcRelContainedInSpatialStructure follow them in file order.            *)
(***************************************************************************)
LeafTypes ==
    {"IfcWall", "IfcSite", "IfcBuilding", "IfcPolygonalFaceSet",
     "IfcTriangulatedFaceSet", "IfcConnectedFaceSet"}

\* the EXPRESS inheritance of the types used (most derived first)
Supertypes(t) ==
    CASE t = "IfcWall" -> <<"IfcWall", "IfcElement", "IfcProduct">>
      [] t = "IfcSite" -> <<"IfcSite", "IfcSpatialElement", "IfcProduct">>
      [] t = "IfcBuilding" -> <<"IfcBuilding", "IfcSpatialElement", "IfcProduct">>
      [] t = "IfcRelNests" -> <<"IfcRelNests", "IfcRelDecomposes">>
      [] t = "IfcRelAggregates" -> <<"IfcRelAggregates", "IfcRelDecomposes">>
      [] t = "IfcRelContainedInSpatialStructure" ->
            <<"IfcRelContainedInSpatialStructure">>
      [] OTHER -> <<t>>

SchemaTypes ==
    UNION {SeqRange(Supertypes(t)) : t \in LeafTypes \cup
            {"IfcRelNests", "IfcRelAggregates", "IfcRelContainedInSpatialStructure"}}

\* the id before the first relationship instance of each kind
NestsBase == NumInst
AggBase == NestsBase + Len(model.nests)
ContBase == AggBase + Len(model.aggregates)

IsProduct(id) == id \in Inst
IsRelNests(id) == id > NestsBase /\ id <= NestsBase + Len(model.nests)
IsRelAgg(id) == id > AggBase /\ id <= AggBase + Len(model.aggregates)
IsRelCont(id) == id > ContBase /\ id <= ContBase + Len(model.contains)

\* inst.is_a() without argument: the declared type
TypeOf(id) ==
    CASE IsProduct(id) -> model.type[id]
      [] IsRelNests(id) -> "IfcRelNests"
      [] IsRelAgg(id) -> "IfcRelAggregates"
      [] OTHER -> "IfcRelContainedInSpatialStructure"

\* inst.is_a(s): the declared type or one of its supertypes
is_a(x, s) == x.k = "ent" /\ s \in SeqRange(Supertypes(TypeOf(x.n)))

AllIds ==
    Indices(NumInst + Len(model.nests) + Len(model.aggregates) + Len(model.contains))

\* context.model.by_type(entity): instances in file order; raises for a name
\* that is not an entity of the schema
by_type_raises(entity) == entity \notin SchemaTypes
by_type(entity) ==
    MapSeq(FilterSeq(AllIds, LAMBDA id : is_a(Ent(id), entity)), Ent)

\* the relationship records behind the relationship instances
RelOf(id) ==
    CASE IsRelNests(id) -> model.nests[id - NestsBase]
      [] IsRelAgg(id) -> model.aggregates[id - AggBase]
      [] OTHER -> model.contains[id - ContBase]

\* inverse attributes: the relationship instances that reference `id`
RelsRelating(base, rels, id) ==
    MapSeq(FilterSeq(Indices(Len(rels)), LAMBDA i : rels[i].relating = id),
           LAMBDA i : Ent(base + i))
RelsRelated(base, rels, id) ==
    MapSeq(FilterSeq(Indices(Len(rels)), LAMBDA i : id \in SeqRange(rels[i].related)),
           LAMBDA i : Ent(base + i))

\* attribute access on an entity instance: [found, val]; found = FALSE when
\* the entity type has no such attribute (AttributeError)
Found(v) == [found |-> TRUE, val |-> v]
NotFound == [found |-> FALSE, val |-> None]

EntityAttr(id, attribute) ==
    IF IsProduct(id) THEN
        CASE attribute = "Name" -> Found(model.name[id])
          [] attribute = "IsNestedBy" ->
                Found(Tup(RelsRelating(NestsBase, model.nests, id)))
          [] attribute = "Nests" ->
                Found(Tup(RelsRelated(NestsBase, model.nests, id)))
          [] attribute = "IsDecomposedBy" ->
                Found(Tup(RelsRelating(AggBase, model.aggregates, id)))
          [] attribute = "Decomposes" ->
                Found(Tup(RelsRelated(AggBase, model.aggregates, id)))
          [] attribute = "ContainedInStructure"
                /\ "IfcElement" \in SeqRange(Supertypes(TypeOf(id))) ->
                Found(Tup(RelsRelated(ContBase, model.contains, id)))
          [] attribute = "ContainsElements"
                /\ "IfcSpatialElement" \in SeqRange(Supertypes(TypeOf(id))) ->
                Found(Tup(RelsRelating(ContBase, model.contains, id)))
          [] OTHER -> NotFound
    ELSE
        CASE attribute = "Name" -> Found(None)
          [] attribute \in {"RelatingObject", "RelatingStructure"}
                /\ (attribute = "RelatingStructure") = IsRelCont(id) ->
                Found(Ent(RelOf(id).relating))
          [] attribute \in {"RelatedObjects", "RelatedElements"}
                /\ (attribute = "RelatedElements") = IsRelCont(id) ->
                Found(Tup(MapSeq(RelOf(id).related, Ent)))
          [] OTHER -> NotFound

\* getattr(x, attribute, default)
getattr(x, attribute, default) ==
    IF x.k = "ent" /\ EntityAttr(x.n, attribute).found
    THEN EntityAttr(x.n, attribute).val
    ELSE default

(***************************************************************************)
(* The behave context.  A layer holds the attributes set while it was the  *)
(* top-most layer; reading an attribute searches the layers top-down.      *)
(***************************************************************************)
EmptyLayer ==
    [has_instances |-> FALSE, instances |-> <<>>,
     has_applicable |-> FALSE, applicable |-> TRUE]

\* context._push()
_push(st) == <<EmptyLayer>> \o st

\* context.instances = values
set_instances(st, values) ==
    [st EXCEPT ![1] = [@ EXCEPT !.has_instances = TRUE, !.instances = values]]

\* context.applicable = b
set_applicable(st, b) ==
    [st EXCEPT ![1] = [@ EXCEPT !.has_applicable = TRUE, !.applicable = b]]

\* hasattr(context, 'instances')
has_instances(st) == \E l \in 1 .. Len(st) : st[l].has_instances

\* context.instances
get_instances(st) ==
    LET l == CHOOSE l \in 1 .. Len(st) :
                /\ st[l].has_instances
                /\ \A m \in 1 .. l - 1 : ~st[m].has_instances
    IN st[l].instances

\* getattr(context, 'applicable', True)
get_applicable(st) ==
    IF \E l \in 1 .. Len(st) : st[l].has_applicable
    THEN LET l == CHOOSE l \in 1 .. Len(st) :
                    /\ st[l].has_applicable
                    /\ \A m \in 1 .. l - 1 : ~st[m].has_applicable
         IN st[l].applicable
    ELSE TRUE

\* list(filter(None, list(map(lambda layer: layer.get('instances'), context._stack))))
stack_tree(st) ==
    MapSeq(FilterSeq(st, LAMBDA layer : layer.has_instances /\ layer.instances # <<>>),
           LAMBDA layer : layer.instances)

RECURSIVE map_value(_, _, _)
\* map_state on one element: tuples are mapped element-wise, recursively
map_value(v, attribute, default) ==
    IF v.k = "tup"
    THEN Tup(MapSeq(v.t, LAMBDA e : map_value(e, attribute, default)))
    ELSE getattr(v, attribute, default)

\* map_state(values, lambda i: getattr(i, attribute, None)) on a list
map_state(values, attribute) ==
    MapSeq(values, LAMBDA v : map_value(v, attribute, None))

(***************************************************************************)
(* Error records (the dataclasses of steps.py).  All records have one      *)
(* shape; a class leaves the fields it does not have at their defaults.    *)
(***************************************************************************)
ErrBase ==
    [kind |-> "", inst |-> None, items |-> <<>>, paths |-> <<>>, name |-> "",
     text |-> "", values |-> <<>>, num |-> 0, negative |-> FALSE,
     condition |-> "", directness |-> ""]

instance_attribute_value_error(path, allowed_values, negative) ==
    [ErrBase EXCEPT !.kind = "instance_attribute_value_error",
                    !.items = path, !.values = allowed_values,
                    !.negative = negative]

instance_attribute_value_count_error(paths, allowed_values, num_required) ==
    [ErrBase EXCEPT !.kind = "instance_attribute_value_count_error",
                    !.paths = paths, !.values = allowed_values,
                    !.num = num_required]

attribute_type_error(inst, related, attribute, expected_entity_type) ==
    [ErrBase EXCEPT !.kind = "attribute_type_error", !.inst = inst,
                    !.items = related, !.name = attribute,
                    !.text = expected_entity_type]

instance_structure_error(related, relating, relationship_type, condition, directness) ==
    [ErrBase EXCEPT !.kind = "instance_structure_error", !.inst = related,
                    !.items = relating, !.name = relationship_type,
                    !.condition = condition, !.directness = directness]

edge_use_error(inst, edge, count) ==
    [ErrBase EXCEPT !.kind = "edge_use_error", !.inst = inst, !.items = <<edge>>,
                    !.num = count]

instance_count_error(insts, type_name) ==
    [ErrBase EXCEPT !.kind = "instance_count_error", !.items = insts,
                    !.name = type_name]

missing_relationship_error(inst, relationship) ==
    [ErrBase EXCEPT !.kind = "missing_relationship_error", !.inst = inst,
                    !.name = relationship]

\* err.InstanceStructureError(False, related, relating, relationship_type,
\* optional_values) and the success records of thens/relations.py
InstanceStructureError(related, relating, relationship_type, condition, directness) ==
    instance_structure_error(related, relating, relationship_type, condition, directness)

RuleSuccess(kind, inst) == [ErrBase EXCEPT !.kind = kind, !.inst = inst]

\* fmt(x): str(x), with the middle elided when longer than 35 characters.
\* The STEP line of an entity instance is longer than that; the names and
\* numbers of this model are not.
fmt(x) ==
    IF x.k = "ent" \/ (x.k = "tup" /\ \E i \in 1 .. Len(x.t) : x.t[i].k = "ent")
    THEN V("elided", x.n, "", x.t)
    ELSE x

\* str(dc): the sentence of each class, as its template and the values that
\* fill it
Msg(tpl, args) == [tpl |-> tpl, args |-> args]

to_str(dc) ==
    CASE dc.kind = "instance_attribute_value_error" ->
            Msg(IF dc.negative THEN "The value {} on {} is one of {}"
                               ELSE "The value {} on {} is not one of {}",
                <<dc.items[1], dc.items[2]>> \o MapSeq(dc.values, Str))
      [] dc.kind = "instance_attribute_value_count_error" ->
            Msg("Not at least {} instances of {} for values:{}",
                <<Num(dc.num)>> \o MapSeq(dc.values, Str)
                    \o MapSeq(dc.paths, LAMBDA p : Tup(<<p[1], p[2]>>)))
      [] dc.kind = "attribute_type_error" ->
            IF Len(dc.items) > 0
            THEN Msg("The instance {} expected type '{}' for the attribute {}, but found {}  ",
                     <<dc.inst, Str(dc.text), Str(dc.name), fmt(Tup(dc.items))>>)
            ELSE Msg("This instance {} has no value for attribute {}",
                     <<dc.inst, Str(dc.name)>>)
      [] dc.kind = "instance_structure_error" ->
            IF Len(dc.items) > 0
            THEN Msg("The instance {} {} {} {} (in) the following ({}) instances: {}",
                     <<fmt(dc.inst),
                       Str(IF dc.condition = "must" THEN "is not" ELSE "is"),
                       Str(dc.directness), Str(dc.name), Num(Len(dc.items))>>
                        \o MapSeq(dc.items, fmt))
            ELSE Msg("This instance {} is not {} anything", <<dc.inst, Str(dc.name)>>)
      [] dc.kind = "edge_use_error" ->
            Msg("On instance {} the edge {} was referenced {} times",
                <<fmt(dc.inst), fmt(dc.items[1]), Num(dc.num)>>)
      [] dc.kind = "instance_count_error" ->
            IF Len(dc.items) > 0
            THEN Msg("The following {} instances of type {} were encountered: {}",
                     <<Num(Len(dc.items)), Str(dc.name)>> \o MapSeq(dc.items, fmt))
            ELSE Msg("No instances of type {} were encountered", <<Str(dc.name)>>)
      [] dc.kind = "missing_relationship_error" ->
            Msg("Instance {} has no relationship {}", <<fmt(dc.inst), Str(dc.name)>>)
      [] OTHER -> Msg("", <<>>)

\* str(dc) raises IndexError when a path has no second element
str_raises(dc) ==
    \/ dc.kind = "instance_attribute_value_error" /\ Len(dc.items) < 2
    \/ dc.kind = "instance_attribute_value_count_error"
            /\ \E i \in 1 .. Len(dc.paths) : Len(dc.paths[i]) < 2

\* json.dumps(asdict(dc), default=tuple): the fields of the record, entity
\* instances as their STEP line, plus message and the inst_* attributes
to_json(dc) ==
    Msg("json", <<Str(dc.kind), dc.inst, Tup(dc.items), Str(dc.name),
                  Str(dc.text), Tup(MapSeq(dc.values, Str)), Num(dc.num),
                  Bool(dc.negative), Str(dc.condition), Str(dc.directness),
                  Str(to_str(dc).tpl), Tup(to_str(dc).args)>>
                 \o (IF dc.inst.k = "ent"
                     THEN <<Str(TypeOf(dc.inst.n)), Num(dc.inst.n)>>
                     ELSE <<>>))

error_formatter(dc) == IF config.format = "json" THEN to_json(dc) ELSE to_str(dc)

\* a handle_errors that lets a single record pass
handle_errors_more_than_one(errs) ==
    LET format_raises == \E i \in 1 .. Len(errs) : str_raises(errs[i]) IN
    [raised |-> Len(errs) > 1,
     format_raises |-> format_raises,
     detail |-> IF format_raises THEN <<>>
                ELSE <<Msg("Errors occured:", <<>>)>> \o MapSeq(errs, error_formatter)]

\* handle_errors(context, errors): the assertion fails when the list is not
\* empty; its message is the heading followed by one formatted line per record
\* (building that message raises instead when a record cannot be formatted)
handle_errors(errs) ==
    LET format_raises == \E i \in 1 .. Len(errs) : str_raises(errs[i]) IN
    [raised |-> errs # <<>>,
     format_raises |-> format_raises,
     detail |-> IF format_raises THEN <<>>
                ELSE <<Msg("Errors occured:", <<>>)>> \o MapSeq(errs, error_formatter)]

(***************************************************************************)
(* Steps.  A Given step yields the new context or an exception; a Then     *)
(* step yields the error list it hands to handle_errors, or an exception   *)
(* raised before it got that far.                                          *)
(***************************************************************************)
NoStep ==
    [step |-> "", entity |-> "", other_entity |-> "", attribute |-> "",
     value |-> None, fragment |-> "", condition |-> "", directness |-> "",
     tail |-> 0, num |-> 0, values |-> <<>>]

GivenOk(st) == [exc |-> FALSE, stack |-> st]
GivenExc == [exc |-> TRUE, stack |-> <<>>]
ThenOk(errs) == [exc |-> FALSE, errors |-> errs]
ThenExc == [exc |-> TRUE, errors |-> <<>>]

\* the scenario goes on until a step raises
Running == outcome \in {"none", "passed"} /\ loop.pc = "idle"

\* a Given step ran
Given(lbl, r) ==
    /\ Running
    /\ nsteps < MaxGiven
    /\ last' = lbl
    /\ stack' = IF r.exc THEN stack ELSE r.stack
    /\ outcome' = IF r.exc THEN "exception" ELSE "none"
    /\ errors' = <<>>
    /\ detail' = <<>>
    /\ nsteps' = nsteps + 1
    /\ UNCHANGED <<model, config, loop>>

\* a Then step ran up to and including its call of handle_errors
Then(lbl, r) ==
    /\ Running
    /\ last' = lbl
    /\ errors' = r.errors
    /\ outcome' = IF r.exc THEN "exception"
                  ELSE IF ~handle_errors(r.errors).raised THEN "passed"
                  ELSE IF handle_errors(r.errors).format_raises THEN "format_exception"
                  ELSE "failed"
    /\ detail' = IF ~r.exc /\ handle_errors(r.errors).raised
                        /\ ~handle_errors(r.errors).format_raises
                 THEN handle_errors(r.errors).detail ELSE <<>>
    /\ UNCHANGED <<model, config, stack, nsteps, loop>>

\* @given("An {entity}")
an_entity(entity) ==
    GivenOk(set_instances(stack,
                IF by_type_raises(entity) THEN <<>> ELSE by_type(entity)))

GivenAnEntity(entity) ==
    Given([NoStep EXCEPT !.step = "An", !.entity = entity], an_entity(entity))

\* @given("{attribute} = {value}")
attribute_equals(attribute, value) ==
    IF ~has_instances(stack) THEN GivenExc
    ELSE GivenOk(set_instances(stack,
            FilterSeq(get_instances(stack),
                      LAMBDA inst : PyEq(getattr(inst, attribute, Bool(TRUE)), value))))

GivenAttributeEquals(attribute, value) ==
    Given([NoStep EXCEPT !.step = "attribute =", !.attribute = attribute,
                         !.value = value],
          attribute_equals(attribute, value))

\* an 'Its attribute' whose 'and following that' leaves the projection as the
\* current selection
its_attribute_keeps_projection(attribute, tail) ==
    LET pushed == _push(stack) IN
    IF ~has_instances(stack) THEN GivenExc
    ELSE IF tail = 1 THEN
        LET current_instances == get_instances(pushed)
            projected == set_instances(pushed, map_state(current_instances, attribute))
        IN GivenOk(_push(projected))
    ELSE IF tail = 2 THEN
        LET projected == set_instances(pushed,
                            map_state(get_instances(pushed), attribute))
            again == _push(projected)
            tree == stack_tree(again)
        IN IF ~AnyTruthy(get_instances(again))
           THEN GivenOk(set_applicable(set_instances(again, <<>>), FALSE))
           ELSE GivenOk(set_instances(again, tree[Len(tree)]))
    ELSE GivenOk(set_instances(pushed, map_state(get_instances(pushed), attribute)))

\* an 'Its attribute' whose 'and return to first' returns to the top-most
\* layer of the tree instead of the bottom-most
its_attribute_returns_to_top(attribute, tail) ==
    LET pushed == _push(stack) IN
    IF ~has_instances(stack) THEN GivenExc
    ELSE IF tail = 1 THEN
        LET current_instances == get_instances(pushed)
            projected == set_instances(pushed, map_state(current_instances, attribute))
        IN GivenOk(set_instances(_push(projected), current_instances))
    ELSE IF tail = 2 THEN
        LET projected == set_instances(pushed,
                            map_state(get_instances(pushed), attribute))
            again == _push(projected)
            tree == stack_tree(again)
        IN IF ~AnyTruthy(get_instances(again))
           THEN GivenOk(set_applicable(set_instances(again, <<>>), FALSE))
           ELSE GivenOk(set_instances(again, tree[1]))
    ELSE GivenOk(set_instances(pushed, map_state(get_instances(pushed), attribute)))

\* @given('Its attribute {attribute} {tail:maybe_and_following_that}')
its_attribute(attribute, tail) ==
    LET pushed == _push(stack) IN
    IF ~has_instances(stack) THEN GivenExc
    ELSE IF tail = 1 THEN
        LET current_instances == get_instances(pushed)
            projected == set_instances(pushed, map_state(current_instances, attribute))
        IN GivenOk(set_instances(_push(projected), current_instances))
    ELSE IF tail = 2 THEN
        LET projected == set_instances(pushed,
                            map_state(get_instances(pushed), attribute))
            again == _push(projected)
            tree == stack_tree(again)
        IN IF ~AnyTruthy(get_instances(again))
           THEN GivenOk(set_applicable(set_instances(again, <<>>), FALSE))
           ELSE GivenOk(set_instances(again, tree[Len(tree)]))
    ELSE GivenOk(set_instances(pushed, map_state(get_instances(pushed), attribute)))

GivenItsAttribute(attribute, tail) ==
    Given([NoStep EXCEPT !.step = "Its attribute", !.attribute = attribute,
                         !.tail = tail],
          its_attribute(attribute, tail))

\* lower-casing and header parsing of the strings that occur
lower(x) ==
    CASE x = "IFC4" -> "ifc4"
      [] x = "IFC2X3" -> "ifc2x3"
      [] x = "ReferenceView" -> "referenceview"
      [] OTHER -> x

\* get_mvd(ifc_file): description[0].split(" ", 1)[1][1:-1], None when that
\* raises.  model.description is description[0] split at its first blank.
get_mvd ==
    IF Len(model.description) < 2 THEN None
    ELSE CASE model.description[2] = "[ReferenceView]" -> Str("ReferenceView")
           [] OTHER -> Str(model.description[2])

\* an 'A file with' that stores the outcome of its own test only
a_file_with_overwrites(field, values) ==
    LET lowered == MapSeq(values, lower)
        mvd == IF Truthy(get_mvd) THEN Str(lower(get_mvd.s)) ELSE None
    IN IF field \notin {"Model View Definition", "Schema Identifier"} THEN GivenExc
       ELSE LET applicable ==
                    IF field = "Model View Definition"
                    THEN mvd.k = "str" /\ mvd.s \in SeqRange(lowered)
                    ELSE lower(model.schema) \in SeqRange(lowered)
            IN GivenOk(set_applicable(stack, applicable))

\* @given('A file with {field} "{values}"')
a_file_with(field, values) ==
    LET lowered == MapSeq(values, lower)
        mvd == IF Truthy(get_mvd) THEN Str(lower(get_mvd.s)) ELSE None
    IN IF field \notin {"Model View Definition", "Schema Identifier"} THEN GivenExc
       ELSE LET applicable ==
                    IF field = "Model View Definition"
                    THEN mvd.k = "str" /\ mvd.s \in SeqRange(lowered)
                    ELSE lower(model.schema) \in SeqRange(lowered)
            IN GivenOk(set_applicable(stack, get_applicable(stack) /\ applicable))

GivenAFileWith(field, values) ==
    Given([NoStep EXCEPT !.step = "A file with", !.attribute = field,
                         !.values = values],
          a_file_with(field, values))

RECURSIVE value_loop(_, _, _, _, _, _)
\* the loop over range(len(stack_tree[0])) of the value check, from index i
\* on; acc = [errors, num_valid, exc]
value_loop(tree, i, values, negative, num, acc) ==
    IF acc.exc \/ i > Len(tree[1]) THEN acc
    ELSE IF \E l \in 1 .. Len(tree) : Len(tree[l]) < i
    THEN [acc EXCEPT !.exc = TRUE]                         \* l[i]: IndexError
    ELSE LET path == MapSeq(tree, LAMBDA l : l[i]) IN
         IF path[1].k = "tup" /\ path[1].t = <<>>
         THEN [acc EXCEPT !.exc = TRUE]                    \* path[0][0]: IndexError
         ELSE LET attr_value == IF path[1].k = "tup" THEN path[1].t[1] ELSE path[1]
                  member == attr_value.k = "str" /\ attr_value.s \in SeqRange(values)
              IN value_loop(tree, i + 1, values, negative, num,
                    IF ~member /\ num = <<>> /\ ~negative
                    THEN [acc EXCEPT !.errors = Append(@,
                            instance_attribute_value_error(path, values, FALSE))]
                    ELSE IF member /\ num = <<>> /\ negative
                    THEN [acc EXCEPT !.errors = Append(@,
                            instance_attribute_value_error(path, values, negative))]
                    ELSE [acc EXCEPT !.num_valid = @ + 1])

\* @then('The value must {constraint}') and @then('At least "{num:d}" value
\* must {constraint}'), for a constraint that lists literal values; num is
\* <<>> for None and <<n>> otherwise
value_must(values, negative, num) ==
    IF ~get_applicable(stack) THEN ThenOk(<<>>)
    ELSE IF ~has_instances(stack) THEN ThenExc
    ELSE LET tree == stack_tree(stack) IN
         IF tree = <<>> THEN ThenOk(<<>>)
         ELSE LET acc == value_loop(tree, 1, values, negative, num,
                            [errors |-> <<>>, num_valid |-> 0, exc |-> FALSE])
                  paths == MapSeq(Indices(Len(tree[1])),
                                  LAMBDA i : MapSeq(tree, LAMBDA l : l[i]))
              IN IF acc.exc THEN ThenExc
                 ELSE IF num # <<>> /\ acc.num_valid < num[1]
                 THEN ThenOk(Append(acc.errors,
                        instance_attribute_value_count_error(paths, values, num[1])))
                 ELSE ThenOk(acc.errors)

ThenValueMust(values, negative) ==
    Then([NoStep EXCEPT !.step = "The value must", !.values = values,
                        !.condition = IF negative THEN "not" ELSE ""],
         value_must(values, negative, <<>>))

ThenAtLeastValuesMust(num, values, negative) ==
    Then([NoStep EXCEPT !.step = "At least values must", !.values = values,
                        !.num = num, !.condition = IF negative THEN "not" ELSE ""],
         value_must(values, negative, <<num>>))

\* a loop `for inst in insts` whose body yields error records or raises:
\* the records of all instances, or the exception that ended the loop
ForEach(insts, body(_)) ==
    LET F[i \in 0 .. Len(insts)] ==
            IF i = 0 THEN ThenOk(<<>>)
            ELSE IF F[i - 1].exc \/ body(insts[i]).exc THEN ThenExc
            ELSE ThenOk(F[i - 1].errors \o body(insts[i]).errors)
    IN F[Len(insts)]

\* @then('The type of attribute {attribute} should be {expected_entity_type}')
\* getattr(inst, attribute, []) must be an entity instance, or .is_a raises
type_of_attribute(attribute, expected_entity_type) ==
    IF ~has_instances(stack) THEN ThenExc
    ELSE ForEach(get_instances(stack),
            LAMBDA inst :
                LET related_entity == getattr(inst, attribute, Tup(<<>>)) IN
                IF related_entity.k # "ent" THEN ThenExc
                ELSE IF ~is_a(related_entity, expected_entity_type)
                THEN ThenOk(<<attribute_type_error(inst, <<related_entity>>,
                                    attribute, expected_entity_type)>>)
                ELSE ThenOk(<<>>))

ThenTypeOfAttribute(attribute, expected_entity_type) ==
    Then([NoStep EXCEPT !.step = "The type of attribute", !.attribute = attribute,
                        !.other_entity = expected_entity_type],
         type_of_attribute(attribute, expected_entity_type))

\* reltype_to_extr of the nesting steps
reltype_to_extr(relationship_type) ==
    CASE relationship_type = "must nest" ->
            [attribute |-> "Nests", object_placement |-> "RelatingObject",
             error_log_txt |-> "nesting"]
      [] relationship_type = "is nested by" ->
            [attribute |-> "IsNestedBy", object_placement |-> "RelatedObjects",
             error_log_txt |-> "nested by"]

\* the error_log_txt of 'a list of only' followed by ' a list that includes'
ListThatIncludes(error_log_txt) ==
    CASE error_log_txt = "nesting" -> "nesting a list that includes"
      [] error_log_txt = "nested by" -> "nested by a list that includes"

\* @then('Each {entity} {fragment} instance(s) of {other_entity}'); the
\* fragment is given as the two keywords the grammar parses it into
each_nesting(entity, relationship_type, condition, other_entity) ==
    LET extr == reltype_to_extr(relationship_type) IN
    IF ~get_applicable(stack) THEN ThenOk(<<>>)
    ELSE IF by_type_raises(entity) THEN ThenExc
    ELSE ForEach(by_type(entity),
        LAMBDA inst :
            LET rels == getattr(inst, extr.attribute, Tup(<<>>)).t
                mapped == MapSeq(rels,
                            LAMBDA x : getattr(x, extr.object_placement, Tup(<<>>)))
                \* one IfcRelNests with a tuple of objects is flattened to a list
                related_entities ==
                    IF mapped # <<>> /\ mapped[1].k = "tup" THEN mapped[1].t ELSE mapped
                false_elements ==
                    FilterSeq(related_entities, LAMBDA x : ~is_a(x, other_entity))
                correct_elements ==
                    FilterSeq(related_entities, LAMBDA x : is_a(x, other_entity))
            IN IF mapped = <<>> THEN ThenOk(<<>>)
               ELSE IF condition = "only 1" THEN
                    IF Len(correct_elements) > 1
                    THEN ThenOk(<<instance_structure_error(inst, correct_elements,
                                    extr.error_log_txt, "", "")>>)
                    ELSE ThenOk(<<>>)
               ELSE \* 'a list of only'
                    IF Len(rels) > 1
                    THEN ThenExc    \* instance_structure_error(<one argument>): TypeError
                    ELSE IF Len(false_elements) > 0
                    THEN ThenOk(<<instance_structure_error(inst, false_elements,
                                    ListThatIncludes(extr.error_log_txt), "", "")>>)
                    ELSE ThenOk(<<>>))

ThenEachNesting(entity, relationship_type, condition, other_entity) ==
    Then([NoStep EXCEPT !.step = "Each nesting", !.entity = entity,
                        !.fragment = relationship_type, !.condition = condition,
                        !.other_entity = other_entity],
         each_nesting(entity, relationship_type, condition, other_entity))

\* edge_type(pair): a tuple for an oriented edge, a frozenset otherwise (its
\* elements are kept in ascending order, once each)
edge_type(oriented, a, b) ==
    IF oriented THEN Tup(<<Num(a), Num(b)>>)
    ELSE IF a = b THEN V("frozenset", 0, "", <<Num(a)>>)
    ELSE IF a < b THEN V("frozenset", 0, "", <<Num(a), Num(b)>>)
    ELSE V("frozenset", 0, "", <<Num(b), Num(a)>>)

\* zip(coords, coords[1:] + [coords[0]]) of one loop of point indices
loop_edges(oriented, fcoords) ==
    MapSeq(Indices(Len(fcoords)), LAMBDA k :
        edge_type(oriented, model.coords[fcoords[k]],
                  model.coords[fcoords[(k % Len(fcoords)) + 1]]))

\* the pairs (0, 1), (1, 2), (2, 0) of one triangle of IfcTriangulatedFaceSet
triangle_edges(oriented, idx) ==
    MapSeq(<<<<1, 2>>, <<2, 3>>, <<3, 1>>>>, LAMBDA ij :
        edge_type(oriented, model.coords[idx[ij[1]]], model.coords[idx[ij[2]]]))

\* get_edges(file, inst, Counter, oriented): the edges in the order they are
\* yielded, or NotImplementedError.  The faces of the files explored have no
\* inner loops, and their connected face sets no IfcOrientedEdge.
get_edges_raises(inst) ==
    \A t \in {"IfcConnectedFaceSet", "IfcTriangulatedFaceSet", "IfcPolygonalFaceSet"} :
        ~is_a(inst, t)

\* a get_edges that leaves out the pair from the last point of a loop back
\* to its first
get_edges_open_loops(inst, oriented) ==
    Flatten(MapSeq(model.faces, LAMBDA f :
        MapSeq(Indices(Len(f) - 1), LAMBDA k :
            edge_type(oriented, model.coords[f[k]], model.coords[f[k + 1]]))))

get_edges(inst, oriented) ==
    IF is_a(inst, "IfcTriangulatedFaceSet")
    THEN Flatten(MapSeq(model.faces, LAMBDA idx : triangle_edges(oriented, idx)))
    ELSE Flatten(MapSeq(model.faces, LAMBDA f : loop_edges(oriented, f)))

\* Counter(edges)[ed]
edge_usage(edges, ed) == Cardinality({k \in 1 .. Len(edges) : edges[k] = ed})

\* @then("Every {something} must be referenced exactly {num:d} times by the
\* loops of the face"): one record per distinct edge whose count is not num.
\* The records of an instance are listed in the order of the first reference
\* of their edges.
every_edge(something, num) ==
    IF something \notin {"edge", "oriented edge"} \/ ~has_instances(stack) THEN ThenExc
    ELSE ForEach(get_instances(stack), LAMBDA inst :
            IF get_edges_raises(inst) THEN ThenExc
            ELSE LET edges == get_edges(inst, something = "oriented edge")
                     invalid == FilterSeq(Indices(Len(edges)), LAMBDA k :
                                    /\ \A j \in 1 .. k - 1 : edges[j] # edges[k]
                                    /\ edge_usage(edges, edges[k]) # num)
                 IN ThenOk(MapSeq(invalid, LAMBDA k :
                        edge_use_error(inst, edges[k], edge_usage(edges, edges[k])))))

ThenEveryEdge(something, num) ==
    Then([NoStep EXCEPT !.step = "Every edge", !.fragment = something, !.num = num],
         every_edge(something, num))

\* the rows of resources/relating_entity_attributes.csv and
\* resources/related_entity_attributes.csv: for a relationship type, the
\* attribute of its relating and of its related side ("" when the type has
\* no column, where DictReader's row gives None)
relating_attr_matrix(rel_type) ==
    CASE rel_type \in {"IfcRelNests", "IfcRelAggregates"} -> "RelatingObject"
      [] rel_type = "IfcRelContainedInSpatialStructure" -> "RelatingStructure"
      [] OTHER -> ""

related_attr_matrix(rel_type) ==
    CASE rel_type \in {"IfcRelNests", "IfcRelAggregates"} -> "RelatedObjects"
      [] rel_type = "IfcRelContainedInSpatialStructure" -> "RelatedElements"
      [] OTHER -> ""

make_aggregate(val) == IF val.k = "tup" THEN val.t ELSE <<val>>

\* @given('A relationship {relationship} {dir1} {entity} {dir2} {other_entity}
\* {tail}') and @then('A relationship {relationship} exists ...'): the list
\* `instances` built by the loops, or the exception that ended them.
\* from = 0, to = 1.
relationship_instances(relationship, dir1, dir2, other_entity, tail) ==
    IF dir1 = dir2 \/ by_type_raises(relationship) \/ ~has_instances(stack)
    THEN ThenExc
    ELSE LET relationships == by_type(relationship)
             attr_to_entity(rel) ==
                IF dir1 # 0 THEN related_attr_matrix(TypeOf(rel.n))
                ELSE relating_attr_matrix(TypeOf(rel.n))
             attr_to_other(rel) ==
                IF dir1 # 0 THEN relating_attr_matrix(TypeOf(rel.n))
                ELSE related_attr_matrix(TypeOf(rel.n))
             to_entity(rel) == make_aggregate(getattr(rel, attr_to_entity(rel), None))
             to_other(rel) ==
                FilterSeq(make_aggregate(getattr(rel, attr_to_other(rel), None)),
                          LAMBDA i : is_a(i, other_entity))
         IN IF get_instances(stack) # <<>>
                /\ \E r \in 1 .. Len(relationships) :
                        relating_attr_matrix(TypeOf(relationships[r].n)) = ""
            THEN ThenExc
            ELSE ThenOk(Flatten(MapSeq(get_instances(stack), LAMBDA inst :
                    Flatten(MapSeq(relationships, LAMBDA rel :
                        IF inst \in SeqRange(to_entity(rel))
                        THEN IF tail # 0 THEN to_other(rel) ELSE <<inst>>
                        ELSE <<>>)))))

RelationshipLabel(step, relationship, dir1, dir2, entity, other_entity, tail) ==
    [NoStep EXCEPT !.step = step, !.attribute = relationship, !.num = dir1,
                   !.entity = entity, !.other_entity = other_entity,
                   !.tail = tail, !.value = Num(dir2)]

\* the step run with the keyword Given: the selection becomes `instances`
GivenRelationship(relationship, dir1, entity, dir2, other_entity, tail) ==
    LET r == relationship_instances(relationship, dir1, dir2, other_entity, tail) IN
    Given(RelationshipLabel("A relationship", relationship, dir1, dir2, entity,
                            other_entity, tail),
          IF r.exc THEN GivenExc ELSE GivenOk(set_instances(stack, r.errors)))

\* the step run with the keyword Then: an error for each selected instance
\* that is not in `instances`
ThenRelationshipExists(relationship, dir1, entity, dir2, other_entity) ==
    LET r == relationship_instances(relationship, dir1, dir2, other_entity, 0) IN
    Then(RelationshipLabel("A relationship exists", relationship, dir1, dir2, entity,
                           other_entity, 0),
         IF r.exc THEN ThenExc
         ELSE ThenOk(MapSeq(FilterSeq(get_instances(stack),
                                      LAMBDA inst : inst \notin SeqRange(r.errors)),
                            LAMBDA inst : missing_relationship_error(inst, relationship))))

(***************************************************************************)
(* thens/relations.py                                                      *)
(***************************************************************************)
IdleLoop ==
    [pc |-> "idle", entity |-> "", condition |-> "", directness |-> "",
     other_entity |-> "", ents |-> <<>>, k |-> 0, elem |-> None,
     observed |-> {}, errs |-> <<>>]

\* a required directness that takes 'directly or indirectly' as one value
required_directness_single(directness) == {directness}

\* required_directness of the containment rule
required_directness(directness) ==
    IF directness \notin {"directly or indirectly", "indirectly or directly"}
    THEN {directness}
    ELSE {"directly", "indirectly"}

\* @then('Each {entity} {condition} be {directness} contained in {other_entity}'):
\* up to the loop over by_type(entity); an empty selection or an inapplicable
\* context goes straight to handle_errors
ThenEachContained(entity, condition, directness, other_entity) ==
    LET lbl == [NoStep EXCEPT !.step = "Each contained", !.entity = entity,
                              !.condition = condition, !.directness = directness,
                              !.other_entity = other_entity]
    IN IF \/ condition \notin {"must", "must not"}
          \/ directness \notin {"directly", "indirectly", "directly or indirectly",
                                "indirectly or directly"}
          \/ ~has_instances(stack)
       THEN Then(lbl, ThenExc)
       ELSE IF ~(get_instances(stack) # <<>> /\ get_applicable(stack))
       THEN Then(lbl, ThenOk(<<>>))
       ELSE IF by_type_raises(entity) THEN Then(lbl, ThenExc)
       ELSE /\ Running
            /\ loop' = [IdleLoop EXCEPT !.pc = "for", !.entity = entity,
                            !.condition = condition, !.directness = directness,
                            !.other_entity = other_entity,
                            !.ents = by_type(entity)]
            /\ last' = lbl
            /\ errors' = <<>>
            /\ outcome' = "none"
            /\ detail' = <<>>
            /\ UNCHANGED <<model, config, stack, nsteps>>

\* `for ent in context.model.by_type(entity)`: the next instance up to the
\* while loop, or handle_errors when none is left
ContainedFor ==
    /\ loop.pc = "for"
    /\ IF loop.k = Len(loop.ents)
       THEN /\ loop' = IdleLoop
            /\ errors' = loop.errs
            /\ outcome' = IF handle_errors(loop.errs).raised THEN "failed" ELSE "passed"
            /\ detail' = handle_errors(loop.errs).detail
       ELSE LET ent == loop.ents[loop.k + 1]
                ContainedInStructure == getattr(ent, "ContainedInStructure", Tup(<<>>)).t
                relating_spatial_element ==
                    getattr(ContainedInStructure[1], "RelatingStructure", None)
            IN IF ~EntityAttr(ent.n, "ContainedInStructure").found
               THEN /\ loop' = IdleLoop
                    /\ outcome' = "exception"
                    /\ UNCHANGED <<errors, detail>>
               ELSE /\ loop' =
                        IF Len(ContainedInStructure) > 0
                        THEN [loop EXCEPT !.k = @ + 1, !.pc = "while",
                                !.elem = relating_spatial_element,
                                !.observed =
                                    IF is_a(relating_spatial_element, loop.other_entity)
                                    THEN {"directly"} ELSE {}]
                        ELSE [loop EXCEPT !.k = @ + 1, !.pc = "compare",
                                !.elem = None, !.observed = {}]
                    /\ UNCHANGED <<errors, outcome, detail>>
    /\ UNCHANGED <<model, config, stack, last, nsteps>>

\* one test of `while len(relating_spatial_element.Decomposes) > 0` and, when
\* it holds, one pass through the body
ContainedWhile ==
    /\ loop.pc = "while"
    /\ LET Decomposes == getattr(loop.elem, "Decomposes", Tup(<<>>)).t IN
       IF Len(Decomposes) > 0
       THEN LET parent == getattr(Decomposes[1], "RelatingObject", None) IN
            loop' = IF is_a(parent, loop.other_entity)
                    THEN [loop EXCEPT !.elem = parent, !.pc = "compare",
                                      !.observed = @ \cup {"indirectly"}]
                    ELSE [loop EXCEPT !.elem = parent]
       ELSE loop' = [loop EXCEPT !.pc = "compare"]
    /\ UNCHANGED <<model, config, stack, last, errors, outcome, detail, nsteps>>

\* the comparison of the observed with the required directness
ContainedCompare ==
    /\ loop.pc = "compare"
    /\ LET ent == loop.ents[loop.k]
           common_directness == required_directness(loop.directness) \cap loop.observed
           directness_achieved == common_directness # {}
           directness_expected == loop.condition = "must"
       IN loop' = [loop EXCEPT !.pc = "for", !.errs =
                    IF directness_achieved # directness_expected
                    THEN Append(@, InstanceStructureError(ent,
                                    <<Str(loop.other_entity)>>, "contained",
                                    loop.condition, loop.directness))
                    ELSE IF config.error_on_passed_rule
                    THEN Append(@, RuleSuccess("RuleSuccess", ent))
                    ELSE @]
    /\ UNCHANGED <<model, config, stack, last, errors, outcome, detail, nsteps>>

\* stmt_to_op(statement): the comparison named by the statement once 'is'
\* is removed from it and it is stripped; the assertion fails for any other
stmt_known(statement) ==
    statement \in {"is", "is not", "", "equal to", "exactly", "not", "at least",
                   "more than", "at most", "less than", "is at least",
                   "is more than", "is at most", "is less than"}

\* a stmt_to_op whose 'at least' is 'more than'
stmt_to_op_strict(statement, a, b) ==
    CASE statement \in {"is", "", "equal to", "exactly"} -> a = b
      [] statement \in {"is not", "not"} -> a # b
      [] statement \in {"at least", "is at least"} -> a > b
      [] statement \in {"more than", "is more than"} -> a > b
      [] statement \in {"at most", "is at most"} -> a <= b
      [] statement \in {"less than", "is less than"} -> a < b

stmt_to_op(statement, a, b) ==
    CASE statement \in {"is", "", "equal to", "exactly"} -> a = b
      [] statement \in {"is not", "not"} -> a # b
      [] statement \in {"at least", "is at least"} -> a >= b
      [] statement \in {"more than", "is more than"} -> a > b
      [] statement \in {"at most", "is at most"} -> a <= b
      [] statement \in {"less than", "is less than"} -> a < b

\* @then('There must be {constraint} {num:d} instance(s) of {entity}')
there_must_be(constraint, num, entity) ==
    IF ~stmt_known(constraint) THEN ThenExc
    ELSE IF ~get_applicable(stack) THEN ThenOk(<<>>)
    ELSE IF by_type_raises(entity) THEN ThenExc
    ELSE LET insts == by_type(entity) IN
         IF ~stmt_to_op(constraint, Len(insts), num)
         THEN ThenOk(<<instance_count_error(insts, entity)>>)
         ELSE ThenOk(<<>>)

ThenThereMustBe(constraint, num, entity) ==
    Then([NoStep EXCEPT !.step = "There must be", !.condition = constraint,
                        !.num = num, !.entity = entity],
         there_must_be(constraint, num, entity))

\* @then('The {related} must be assigned to the {relating} if {other_entity}
\* {condition} present') of thens/relations.py
must_be_assigned(related, relating, other_entity, condition) ==
    IF ~stmt_known(condition) THEN ThenExc
    ELSE IF ~get_applicable(stack) THEN ThenOk(<<>>)
    ELSE IF by_type_raises(other_entity) THEN ThenExc
    ELSE IF stmt_to_op(condition, Len(by_type(other_entity)), 0) THEN ThenOk(<<>>)
    ELSE IF by_type_raises(related) THEN ThenExc
    ELSE ForEach(by_type(related),
            LAMBDA inst :
                ForEach(getattr(inst, "Decomposes", Tup(<<>>)).t,
                    LAMBDA rel :
                        LET RelatingObject == getattr(rel, "RelatingObject", None) IN
                        IF ~is_a(RelatingObject, relating)
                        THEN ThenOk(<<InstanceStructureError(inst, <<RelatingObject>>,
                                        "assigned to", "", "")>>)
                        ELSE IF config.error_on_passed_rule
                        THEN ThenOk(<<RuleSuccess("RuleSuccessInst", inst)>>)
                        ELSE ThenOk(<<>>)))

ThenMustBeAssigned(related, relating, other_entity, condition) ==
    Then([NoStep EXCEPT !.step = "must be assigned", !.entity = related,
                        !.other_entity = relating, !.attribute = other_entity,
                        !.condition = condition],
         must_be_assigned(related, relating, other_entity, condition))

\* the table of 'It must be aggregated as per <table>' after
\* misc.make_aggregrated_dict: for an entity type, the types it may be
\* aggregated in; the second column of the table names the attribute read
aggregated_table(entity_type) ==
    CASE entity_type = "IfcSpatialElement" -> <<"IfcSpatialElement">>
      [] entity_type = "IfcBuilding" -> <<"IfcSite">>
      [] OTHER -> <<>>

aggregated_table_keys == <<"IfcSpatialElement", "IfcBuilding">>
relationship_tbl_header == "RelatingObject"

\* ifc.order_by_ifc_inheritance(types, base_class_last = True)[0]: the type
\* that none of the others derives from
order_by_ifc_inheritance_first(types) ==
    CHOOSE t \in SeqRange(types) :
        \A u \in SeqRange(types) : u \in SeqRange(Supertypes(t))

\* a table rule that takes the first table type an instance is-a instead of
\* the most derived one
must_be_as_per_table_first_listed ==
    IF ~get_applicable(stack) THEN ThenOk(<<>>)
    ELSE IF ~has_instances(stack) THEN ThenExc
    ELSE ForEach(get_instances(stack),
        LAMBDA ent :
            LET applicable_entities ==
                    FilterSeq(aggregated_table_keys, LAMBDA t : is_a(ent, t))
                applicable_entity == applicable_entities[1]
                expected_relationship_objects == aggregated_table(applicable_entity)
                Decomposes == getattr(ent, "Decomposes", Tup(<<>>)).t
                relationship_objects ==
                    make_aggregate(getattr(Decomposes[1], relationship_tbl_header,
                                           Bool(TRUE)))
                wrong == FilterSeq(relationship_objects,
                            LAMBDA o : \A t \in SeqRange(expected_relationship_objects) :
                                            ~is_a(o, t))
                structure_error ==
                    InstanceStructureError(ent,
                        <<Tup(MapSeq(expected_relationship_objects, Str))>>,
                        "related to", "must", "")
            IN IF ent.k # "ent" THEN ThenExc
               ELSE IF applicable_entities = <<>> THEN ThenOk(<<>>)
               ELSE IF Decomposes = <<>> THEN ThenOk(<<structure_error>>)
               ELSE ThenOk(MapSeq(wrong, LAMBDA o : structure_error)
                           \o (IF wrong = <<>>
                               THEN <<RuleSuccess("RuleSuccessInsts", ent)>>
                               ELSE <<>>)))

\* @then('It must be {relationship} as per {table}'), relationship = 'aggregated'
must_be_as_per_table ==
    IF ~get_applicable(stack) THEN ThenOk(<<>>)
    ELSE IF ~has_instances(stack) THEN ThenExc
    ELSE ForEach(get_instances(stack),
        LAMBDA ent :
            LET applicable_entities ==
                    FilterSeq(aggregated_table_keys, LAMBDA t : is_a(ent, t))
                applicable_entity == order_by_ifc_inheritance_first(applicable_entities)
                expected_relationship_objects == aggregated_table(applicable_entity)
                Decomposes == getattr(ent, "Decomposes", Tup(<<>>)).t
                relationship_objects ==
                    make_aggregate(getattr(Decomposes[1], relationship_tbl_header,
                                           Bool(TRUE)))
                wrong == FilterSeq(relationship_objects,
                            LAMBDA o : \A t \in SeqRange(expected_relationship_objects) :
                                            ~is_a(o, t))
                structure_error ==
                    InstanceStructureError(ent,
                        <<Tup(MapSeq(expected_relationship_objects, Str))>>,
                        "related to", "must", "")
            IN IF ent.k # "ent" THEN ThenExc
               ELSE IF applicable_entities = <<>> THEN ThenOk(<<>>)
               ELSE IF Decomposes = <<>> THEN ThenOk(<<structure_error>>)
               ELSE ThenOk(MapSeq(wrong, LAMBDA o : structure_error)
                           \o (IF wrong = <<>>
                               THEN <<RuleSuccess("RuleSuccessInsts", ent)>>
                               ELSE <<>>)))

ThenMustBeAsPerTable ==
    Then([NoStep EXCEPT !.step = "It must be as per", !.fragment = "aggregated"],
         must_be_as_per_table)

(***************************************************************************)
(* The files and the step arguments that are explored                      *)
(***************************************************************************)
Rel(relating, related) == [relating |-> relating, related |-> related]

BaseModel ==
    [schema |-> "IFC4",
     description |-> <<"ViewDefinition", "[ReferenceView]">>,
     type |-> [i \in Inst |-> "IfcWall"],
     name |-> [i \in Inst |-> None],
     nests |-> <<>>,
     aggregates |-> <<>>,
     contains |-> <<>>,
     coords |-> <<>>,
     faces |-> <<>>]

Names == {None, Str("a")}

Scenario(m, format, error_on_passed_rule) ==
    [model |-> m,
     config |-> [format |-> format, error_on_passed_rule |-> error_on_passed_rule]]

\* files that differ in the Name of their walls and in one nesting
\* relationship
SelectionScenarios ==
    {Scenario([BaseModel EXCEPT !.name = nm, !.nests = ns], "plain", FALSE) :
        nm \in [Inst -> Names],
        ns \in {<<>>, <<Rel(1, <<2, 3>>)>>}}

\* a run that reports in JSON
JsonScenarios ==
    {Scenario([BaseModel EXCEPT !.name = [i \in Inst |-> IF i = 1 THEN Str("a") ELSE None]],
              "json", FALSE)}

\* files whose header names another schema and no model view definition
HeaderScenarios ==
    {Scenario([BaseModel EXCEPT !.schema = "IFC2X3", !.description = d],
              "plain", FALSE) :
        d \in {<<>>, <<"ViewDefinition">>}}

\* files with up to two nesting relationships among the first three
\* instances; the first instance is a wall, the others walls or sites
NestingRelations ==
    LET choices == {Rel(1, <<2>>), Rel(1, <<3>>), Rel(1, <<2, 3>>),
                    Rel(2, <<1>>), Rel(3, <<1>>)}
    IN {<<>>} \cup {<<r>> : r \in choices}
              \cup {p \in choices \X choices : p[1] # p[2]}

NestingScenarios ==
    {Scenario([BaseModel EXCEPT !.type = ty, !.nests = ns], "plain", FALSE) :
        ty \in {t \in [Inst -> {"IfcWall", "IfcSite"}] : t[1] = "IfcWall"},
        ns \in NestingRelations}

InitWith(scenarios) ==
    /\ \E sc \in scenarios : model = sc.model /\ config = sc.config
    /\ stack = <<EmptyLayer>>
    /\ last = NoStep
    /\ errors = <<>>
    /\ outcome = "none"
    /\ detail = <<>>
    /\ nsteps = 0
    /\ loop = IdleLoop

EntityArgs == {"IfcWall", "IfcRelNests", "IfcFoo"}
AttributeArgs == {"Name", "RelatedObjects"}
NumArgs == {1, 2}
FileArgs ==
    {<<"Schema Identifier", <<"IFC2X3">>>>,
     <<"Model View Definition", <<"ReferenceView", "CoordinationView">>>>,
     <<"Exchange Requirement", <<"x">>>>}

Init == InitWith(SelectionScenarios \cup JsonScenarios \cup HeaderScenarios)

Next ==
    \/ \E entity \in EntityArgs : GivenAnEntity(entity)
    \/ \E value \in {Str("a"), Bool(TRUE)} : GivenAttributeEquals("Name", value)
    \/ \E attribute \in AttributeArgs, tail \in 0 .. 2 :
            GivenItsAttribute(attribute, tail)
    \/ \E f \in FileArgs : GivenAFileWith(f[1], f[2])
    \/ \E negative \in BOOLEAN : ThenValueMust(<<"a", "b">>, negative)
    \/ \E num \in NumArgs : ThenAtLeastValuesMust(num, <<"a">>, FALSE)
    \/ \E expected \in {"IfcWall", "IfcSite"} :
            ThenTypeOfAttribute("RelatingObject", expected)

Spec == Init /\ [][Next]_vars

(***************************************************************************)
(* The nesting rules and the attribute-type rule over files that differ in *)
(* their nesting relationships                                             *)
(***************************************************************************)
InitNesting == InitWith(NestingScenarios)

NextNesting ==
    \/ GivenAnEntity("IfcRelNests")
    \/ GivenAFileWith("Schema Identifier", <<"IFC2X3">>)
    \/ \E relationship_type \in {"must nest", "is nested by"},
          condition \in {"only 1", "a list of only"},
          other_entity \in {"IfcWall", "IfcSite"} :
            ThenEachNesting("IfcWall", relationship_type, condition, other_entity)
    \/ ThenTypeOfAttribute("RelatingObject", "IfcSite")

SpecNesting == InitNesting /\ [][NextNesting]_vars

(***************************************************************************)
(* The rules of thens/relations.py over files that differ in their         *)
(* containment and aggregation relationships; the aggregations include a   *)
(* chain and a cycle                                                       *)
(***************************************************************************)
ContainmentTypes ==
    {t \in [Inst -> {"IfcWall", "IfcSite", "IfcBuilding"}] :
        /\ t[1] = "IfcWall"
        /\ t[2] \in {"IfcWall", "IfcBuilding"}
        /\ \A i \in Inst : i > 2 => t[i] \in {"IfcSite", "IfcBuilding"}}

ContainmentScenarios ==
    {Scenario([BaseModel EXCEPT !.type = ty, !.contains = cs, !.aggregates = ag],
              "plain", error_on_passed_rule) :
        ty \in ContainmentTypes,
        cs \in {<<>>, <<Rel(2, <<1>>)>>, <<Rel(3, <<1>>)>>},
        ag \in {<<>>, <<Rel(3, <<2>>)>>, <<Rel(2, <<3>>)>>,
                <<Rel(3, <<2>>), Rel(2, <<3>>)>>},
        error_on_passed_rule \in BOOLEAN}

InitContainment == InitWith(ContainmentScenarios)

NextContainment ==
    \/ \E entity \in {"IfcWall", "IfcBuilding", "IfcFoo"} : GivenAnEntity(entity)
    \/ GivenAFileWith("Schema Identifier", <<"IFC2X3">>)
    \/ \E condition \in {"must", "must not"},
          directness \in {"directly", "indirectly", "directly or indirectly"},
          other_entity \in {"IfcSite", "IfcBuilding"} :
            ThenEachContained("IfcWall", condition, directness, other_entity)
    \/ ContainedFor
    \/ ContainedWhile
    \/ ContainedCompare
    \/ ThenMustBeAsPerTable
    \/ \E condition \in {"is", "is not"} :
            ThenMustBeAssigned("IfcBuilding", "IfcSite", "IfcWall", condition)

SpecContainment == InitContainment /\ [][NextContainment]_vars

\* the containment rule alone; a step implementation that has started goes
\* on to its next statement
NextAscent ==
    \/ GivenAnEntity("IfcWall")
    \/ \E condition \in {"must", "must not"},
          directness \in {"directly", "indirectly"},
          other_entity \in {"IfcSite", "IfcBuilding"} :
            ThenEachContained("IfcWall", condition, directness, other_entity)
    \/ ContainedFor
    \/ ContainedWhile
    \/ ContainedCompare

InitAscent ==
    /\ InitContainment
    /\ model.type[2] = "IfcBuilding"
    /\ ~config.error_on_passed_rule

SpecAscent ==
    /\ InitAscent
    /\ [][NextAscent]_vars
    /\ WF_vars(ContainedFor \/ ContainedWhile \/ ContainedCompare)

(***************************************************************************)
(* The relationship step over the files with nesting relationships         *)
(***************************************************************************)
InitRelationship == InitWith(NestingScenarios)

NextRelationship ==
    \/ \E entity \in {"IfcWall", "IfcSite"} : GivenAnEntity(entity)
    \/ \E dir1 \in {0, 1}, other_entity \in {"IfcWall", "IfcSite"}, tail \in {0, 1} :
            GivenRelationship("IfcRelNests", dir1, "IfcWall", 1 - dir1, other_entity, tail)
    \/ \E relationship \in {"IfcRelNests", "IfcWall"}, dir1 \in {0, 1}, dir2 \in {0, 1},
          other_entity \in {"IfcWall", "IfcSite"} :
            ThenRelationshipExists(relationship, dir1, "IfcWall", dir2, other_entity)

SpecRelationship == InitRelationship /\ [][NextRelationship]_vars

(***************************************************************************)
(* The edge rule over face sets made of the faces of a tetrahedron, one of *)
(* them a second time with the opposite orientation, and a quadrilateral;  *)
(* in half of the files the fourth point coincides with the first          *)
(***************************************************************************)
FaceCatalogue ==
    <<<<1, 3, 2>>, <<1, 2, 4>>, <<2, 3, 4>>, <<1, 4, 3>>, <<1, 2, 3>>, <<1, 2, 3, 4>>>>

EdgeScenarios ==
    {Scenario([BaseModel EXCEPT
                    !.type = [i \in Inst |-> IF i = 1 THEN ty ELSE "IfcWall"],
                    !.coords = cs,
                    !.faces = MapSeq(FilterSeq(Indices(Len(FaceCatalogue)),
                                               LAMBDA k : k \in chosen),
                                     LAMBDA k : FaceCatalogue[k])],
              "plain", FALSE) :
        ty \in {"IfcPolygonalFaceSet", "IfcTriangulatedFaceSet", "IfcConnectedFaceSet"},
        cs \in {<<1, 2, 3, 4>>, <<1, 2, 3, 1>>},
        chosen \in SUBSET (1 .. Len(FaceCatalogue))}

InitEdges ==
    /\ InitWith(EdgeScenarios)
    /\ model.type[1] = "IfcTriangulatedFaceSet" =>
            \A f \in 1 .. Len(model.faces) : Len(model.faces[f]) = Len(<<1, 2, 3>>)

NextEdges ==
    \/ \E entity \in {"IfcPolygonalFaceSet", "IfcTriangulatedFaceSet",
                      "IfcConnectedFaceSet", "IfcWall"} : GivenAnEntity(entity)
    \/ \E something \in {"edge", "oriented edge", "vertex"}, num \in NumArgs :
            ThenEveryEdge(something, num)

SpecEdges == InitEdges /\ [][NextEdges]_vars

(***************************************************************************)
(* The instance-count rule over files with no, some or only walls          *)
(***************************************************************************)
CountScenarios ==
    {Scenario([BaseModel EXCEPT !.type = ty], "plain", FALSE) :
        ty \in [Inst -> {"IfcWall", "IfcSite"}]}

ConstraintArgs ==
    {"", "exactly", "equal to", "not", "at least", "more than", "at most",
     "less than", "about"}

InitCount == InitWith(CountScenarios)

NextCount ==
    \/ GivenAnEntity("IfcWall")
    \/ GivenAFileWith("Schema Identifier", <<"IFC2X3">>)
    \/ \E constraint \in ConstraintArgs, num \in NumArgs, entity \in {"IfcWall", "IfcFoo"} :
            ThenThereMustBe(constraint, num, entity)

SpecCount == InitCount /\ [][NextCount]_vars

(***************************************************************************)
(* Properties                                                              *)
(***************************************************************************)
ThenSteps ==
    {"The value must", "At least values must", "The type of attribute",
     "Each nesting", "Each contained", "must be assigned", "It must be as per",
     "A relationship exists", "Every edge", "There must be"}

\* the entities related to inst through all its nesting relationships in the
\* direction of the rule, in file order
NestedRelated(inst, relationship_type) ==
    IF relationship_type = "must nest"
    THEN MapSeq(FilterSeq(Indices(Len(model.nests)),
                          LAMBDA r : inst.n \in SeqRange(model.nests[r].related)),
                LAMBDA r : Ent(model.nests[r].relating))
    ELSE Flatten(MapSeq(FilterSeq(Indices(Len(model.nests)),
                                  LAMBDA r : model.nests[r].relating = inst.n),
                        LAMBDA r : MapSeq(model.nests[r].related, Ent)))

NumNestingRelations(inst, relationship_type) ==
    Cardinality({r \in 1 .. Len(model.nests) :
                    IF relationship_type = "must nest"
                    THEN inst.n \in SeqRange(model.nests[r].related)
                    ELSE model.nests[r].relating = inst.n})

ErrorsOn(inst) == {i \in 1 .. Len(errors) : errors[i].inst = inst}

\* C1: a Then step raises only in handle_errors, after the whole loop, and
\* its error list holds a record for every offending instance: in the 'a
\* list of only' rule an instance with more than one nesting relationship or
\* with a related entity of another type, in the attribute-type rule an
\* instance whose attribute is absent or of another type.
C1_AllViolationsReported ==
    /\ (last.step = "Each nesting" /\ last.condition = "a list of only"
            /\ get_applicable(stack)) =>
            /\ outcome # "exception"
            /\ \A i \in 1 .. Len(by_type(last.entity)) :
                    LET inst == by_type(last.entity)[i]
                        related == NestedRelated(inst, last.fragment)
                    IN (\/ NumNestingRelations(inst, last.fragment) > 1
                        \/ \E j \in 1 .. Len(related) :
                                ~is_a(related[j], last.other_entity))
                            => ErrorsOn(inst) # {}
    /\ (last.step = "The type of attribute" /\ has_instances(stack)) =>
            /\ outcome # "exception"
            /\ \A i \in 1 .. Len(get_instances(stack)) :
                    LET inst == get_instances(stack)[i] IN
                    ~is_a(getattr(inst, last.attribute, None), last.other_entity)
                        => ErrorsOn(inst) # {}

\* C10: under 'only 1' an instance gets exactly one record, listing all its
\* related entities of the type, when more than one entity of the type is
\* related to it through all its nesting relationships, and none otherwise.
C10_OnlyOne ==
    (/\ last.step = "Each nesting" /\ last.condition = "only 1"
     /\ get_applicable(stack) /\ outcome # "exception") =>
        \A i \in 1 .. Len(by_type(last.entity)) :
            LET inst == by_type(last.entity)[i]
                of_type == FilterSeq(NestedRelated(inst, last.fragment),
                                     LAMBDA x : is_a(x, last.other_entity))
            IN IF Cardinality(SeqRange(of_type)) > 1
               THEN /\ Cardinality(ErrorsOn(inst)) = 1
                    /\ \A e \in ErrorsOn(inst) : errors[e].items = of_type
               ELSE ErrorsOn(inst) = {}

AfterThen == last.step \in ThenSteps /\ loop.pc = "idle"
AfterGiven == last.step \notin ThenSteps /\ last.step # "" /\ outcome = "none"

\* the projection of one element of a selection: getattr(i, A, None), taken
\* inside a tuple for each of its elements
ProjectOne(v, attribute) ==
    IF v.k = "tup"
    THEN Tup(MapSeq(v.t, LAMBDA e :
            IF e.k = "tup"
            THEN Tup(MapSeq(e.t, LAMBDA d : getattr(d, attribute, None)))
            ELSE getattr(e, attribute, None)))
    ELSE getattr(v, attribute, None)

\* the instances of the bottom-most layer that holds a non-empty selection
BottomSelection(st) ==
    LET l == CHOOSE l \in 1 .. Len(st) :
                /\ st[l].has_instances /\ st[l].instances # <<>>
                /\ \A m \in l + 1 .. Len(st) :
                        ~(st[m].has_instances /\ st[m].instances # <<>>)
    IN st[l].instances

\* C2: in an inapplicable context every Then step reports no record at all.
C2_InapplicableReportsNothing ==
    (AfterThen /\ ~get_applicable(stack) /\ outcome # "exception") => errors = <<>>

\* C3: handle_errors raises exactly when the error list it is given is not
\* empty, and the detail of its assertion is the heading followed by one
\* formatted message per record, in the order of the list.
C3_HandleErrors ==
    (AfterThen /\ outcome # "exception") =>
        /\ (outcome = "passed") <=> (errors = <<>>)
        /\ (outcome \in {"failed", "format_exception"}) <=> (errors # <<>>)
        /\ outcome = "failed" =>
            /\ Len(detail) = Len(errors) + 1
            /\ \A i \in 1 .. Len(errors) :
                    detail[i + 1] = IF config.format = "json"
                                    THEN to_json(errors[i]) ELSE to_str(errors[i])

C3_Witness ==
    /\ AfterThen /\ outcome = "failed" /\ Len(errors) >= 2
    /\ errors[1] # errors[2]

\* C4: after any sequence of Given steps all non-empty layers of the
\* selection stack have the same length, so that they can be zipped by index.
C4_LayersAligned ==
    AfterGiven =>
        \A l, m \in 1 .. Len(stack_tree(stack)) :
            Len(stack_tree(stack)[l]) = Len(stack_tree(stack)[m])

\* C5: 'Its attribute A and following that' keeps the current selection,
\* records the element-wise projection in a new layer right below the top,
\* and leaves every layer that existed before as it was.
C5_BranchAndContinue ==
    [][\A attribute \in {"Name", "RelatedObjects"} :
        (GivenItsAttribute(attribute, 1) /\ outcome' # "exception") =>
            /\ get_instances(stack') = get_instances(stack)
            /\ Len(stack') = Len(stack) + 2
            /\ stack'[2].has_instances
            /\ stack'[2].instances =
                    MapSeq(get_instances(stack), LAMBDA v : ProjectOne(v, attribute))
            /\ \A l \in 1 .. Len(stack) : stack'[l + 2] = stack[l]]_vars

C5_Witness ==
    /\ last.step = "Its attribute" /\ last.tail = 1 /\ outcome = "none"
    /\ \E i \in 1 .. Len(stack[2].instances) :
            /\ stack[2].instances[i].k = "tup"
            /\ AnyTruthy(stack[2].instances[i].t)

\* C6: 'Its attribute A and return to first' selects the original top-level
\* instances and leaves the applicable flag alone when some projected value
\* is truthy; otherwise it empties the selection and marks the context
\* inapplicable.
C6_ReturnToFirst ==
    [][\A attribute \in {"Name", "RelatedObjects"} :
        (GivenItsAttribute(attribute, 2) /\ outcome' # "exception") =>
            IF AnyTruthy(MapSeq(get_instances(stack),
                                LAMBDA v : ProjectOne(v, attribute)))
            THEN /\ get_instances(stack') = BottomSelection(stack)
                 /\ get_applicable(stack') = get_applicable(stack)
            ELSE /\ get_instances(stack') = <<>>
                 /\ get_applicable(stack') = FALSE]_vars

\* both cases of C6 after a narrowed selection: the bottom layer still holds
\* all instances
C6_Witness ==
    /\ last.step = "Its attribute" /\ last.tail = 2 /\ outcome = "none"
    /\ get_applicable(stack)
    /\ Len(stack) >= 4
    /\ get_instances(stack) = stack[Len(stack)].instances
    /\ get_instances(stack) # stack[3].instances

C6_WitnessInapplicable ==
    /\ last.step = "Its attribute" /\ last.tail = 2 /\ outcome = "none"
    /\ ~get_applicable(stack)
    /\ get_instances(stack) = <<>>
    /\ stack[2].instances # <<>>

\* C9: 'At least N values must be <literals>' reports exactly one
\* count-shortfall record when fewer than N of the evaluated values are among
\* the literals, and nothing otherwise.
C9_CountsMembers ==
    (/\ last.step = "At least values must"
     /\ outcome \in {"passed", "failed"}
     /\ get_applicable(stack)
     /\ Len(stack_tree(stack)) >= 2) =>
        LET values == stack_tree(stack)[1]
            members == {i \in 1 .. Len(values) :
                            LET v == IF values[i].k = "tup"
                                     THEN values[i].t[1] ELSE values[i]
                            IN v.k = "str" /\ v.s \in SeqRange(last.values)}
        IN IF Cardinality(members) < last.num
           THEN /\ Len(errors) = 1
                /\ errors[1].kind = "instance_attribute_value_count_error"
           ELSE errors = <<>>

\* the structure an instance is contained in through its first containment
\* relationship (0 when it has none), and the parent an instance decomposes
\* through its first aggregation (0 when it has none)
ContainingStructure(id) ==
    LET rs == {r \in 1 .. Len(model.contains) : id \in SeqRange(model.contains[r].related)}
    IN IF rs = {} THEN 0
       ELSE model.contains[CHOOSE r \in rs : \A q \in rs : r <= q].relating

DecompositionParent(id) ==
    LET rs == {r \in 1 .. Len(model.aggregates) :
                    id \in SeqRange(model.aggregates[r].related)}
    IN IF rs = {} THEN 0
       ELSE model.aggregates[CHOOSE r \in rs : \A q \in rs : r <= q].relating

\* the ancestors reached from id within n steps up the parent chain
RECURSIVE Ancestors(_, _)
Ancestors(id, n) ==
    IF n = 0 \/ DecompositionParent(id) = 0 THEN {}
    ELSE {DecompositionParent(id)} \cup Ancestors(DecompositionParent(id), n - 1)

ObservedDirectness(inst, other_entity) ==
    IF ContainingStructure(inst.n) = 0 THEN {}
    ELSE (IF is_a(Ent(ContainingStructure(inst.n)), other_entity)
          THEN {"directly"} ELSE {})
         \cup (IF \E a \in Ancestors(ContainingStructure(inst.n), NumInst) :
                        is_a(Ent(a), other_entity)
               THEN {"indirectly"} ELSE {})

RequiredDirectness ==
    IF last.directness \in {"directly or indirectly", "indirectly or directly"}
    THEN {"directly", "indirectly"} ELSE {last.directness}

StructureErrorsOn(inst) ==
    {i \in ErrorsOn(inst) : errors[i].kind = "instance_structure_error"}

ContainedDone ==
    /\ last.step = "Each contained" /\ loop.pc = "idle"
    /\ outcome \in {"passed", "failed"}

SuccessKinds == {"RuleSuccess", "RuleSuccessInst", "RuleSuccessInsts"}

\* C8: with error_on_passed_rule disabled, the containment rule, the table
\* rule and the 'must be assigned to' rule report no success record.
C8_NoSuccessWhenDisabled ==
    (/\ last.step \in {"Each contained", "It must be as per", "must be assigned"}
     /\ ~config.error_on_passed_rule) =>
        \A i \in 1 .. Len(errors) : errors[i].kind \notin SuccessKinds

\* the match set of the relationship rule: inst occupies the entity role of
\* a nesting relationship whose other role holds an entity of the other type
InMatchSet(inst, dir1, other_entity) ==
    \E r \in 1 .. Len(model.nests) :
        LET entity_side == IF dir1 = 0 THEN <<model.nests[r].relating>>
                           ELSE model.nests[r].related
            other_side == IF dir1 = 0 THEN model.nests[r].related
                          ELSE <<model.nests[r].relating>>
        IN /\ inst.k = "ent" /\ inst.n \in SeqRange(entity_side)
           /\ \E o \in SeqRange(other_side) : is_a(Ent(o), other_entity)

\* C11: the Then form of the relationship rule reports a missing
\* relationship for exactly the selected instances outside the match set,
\* and leaves the selection as it was.
C11_MissingRelationships ==
    (/\ last.step = "A relationship exists" /\ last.attribute = "IfcRelNests"
     /\ outcome \in {"passed", "failed"}) =>
        \A i \in 1 .. Len(get_instances(stack)) :
            LET inst == get_instances(stack)[i] IN
            (ErrorsOn(inst) # {}) <=> ~InMatchSet(inst, last.num, last.other_entity)

\* the table types an instance is-a, and the most derived of them
TableTypes(ent) == {t \in SeqRange(aggregated_table_keys) : is_a(ent, t)}

MostSpecificTableType(ent) ==
    CHOOSE t \in TableTypes(ent) : \A u \in TableTypes(ent) : u \in SeqRange(Supertypes(t))

LoopPositions ==
    UNION {{<<f, k>> : k \in 1 .. Len(model.faces[f])} : f \in 1 .. Len(model.faces)}

EdgeAt(p, oriented) ==
    LET face == model.faces[p[1]]
        a == model.coords[face[p[2]]]
        b == model.coords[face[IF p[2] = Len(face) THEN 1 ELSE p[2] + 1]]
    IN IF oriented THEN Tup(<<Num(a), Num(b)>>)
       ELSE V("frozenset", 0, "",
              IF a = b THEN <<Num(a)>>
              ELSE IF a < b THEN <<Num(a), Num(b)>> ELSE <<Num(b), Num(a)>>)

References(e, oriented) == {p \in LoopPositions : EdgeAt(p, oriented) = e}

NumberOf(entity) ==
    Cardinality({i \in Inst : entity \in SeqRange(Supertypes(model.type[i]))})

\* whether k satisfies the constraint keyword for N
Satisfies(constraint, k, N) ==
    CASE constraint = "at least" -> k >= N
      [] constraint = "more than" -> k > N
      [] constraint = "at most" -> k <= N
      [] constraint = "less than" -> k < N
      [] constraint \in {"exactly", "equal to", ""} -> k = N
      [] constraint = "not" -> k # N

\* C14: in an applicable context the instance-count rule reports at most one
\* record, and reports it exactly when the number of instances of the type
\* does not satisfy the constraint; with no instance the record reads 'No
\* instances of type T were encountered'.
C14_InstanceCount ==
    (/\ last.step = "There must be" /\ outcome \in {"passed", "failed"}
     /\ get_applicable(stack)) =>
        LET k == NumberOf(last.entity) IN
        /\ Len(errors) <= 1
        /\ (errors # <<>>) <=> ~Satisfies(last.condition, k, last.num)
        /\ errors # <<>> =>
            /\ errors[1].kind = "instance_count_error"
            /\ Len(errors[1].items) = k
            /\ k = 0 => to_str(errors[1]) =
                            Msg("No instances of type {} were encountered",
                                <<Str(last.entity)>>)

\* 'at least 2' over one wall
C14_Witness ==
    /\ last.step = "There must be" /\ last.condition = "at least" /\ last.num = 2
    /\ get_applicable(stack)
    /\ NumberOf(last.entity) = 1
    /\ Len(errors) = 1 /\ outcome = "failed"

\* 'at least 1' over no wall
C14_WitnessNone ==
    /\ last.step = "There must be" /\ last.condition = "at least" /\ last.num = 1
    /\ NumberOf(last.entity) = 0
    /\ Len(errors) = 1
    /\ detail = <<Msg("Errors occured:", <<>>),
                  Msg("No instances of type {} were encountered", <<Str("IfcWall")>>)>>

\* C15: the containment rule, once it has entered its loop over the
\* instances, comes to its end, whatever the aggregation relationships of
\* the file are.
C15_AscentTerminates == (loop.pc # "idle") ~> (loop.pc = "idle")

\* C16: once the context is inapplicable no step makes it applicable again,
\* and a Then step leaves the flag as it found it.
C16_ApplicableNeverReset ==
    [][/\ ~get_applicable(stack) => ~get_applicable(stack')
       /\ last'.step \in ThenSteps => get_applicable(stack') = get_applicable(stack)]_vars

\* a file step whose own test is met, taken in a context that an earlier
\* file step made inapplicable
C16_Witness ==
    /\ last.step = "A file with" /\ last.attribute = "Model View Definition"
    /\ outcome = "none"
    /\ get_mvd = Str("ReferenceView") /\ "ReferenceView" \in SeqRange(last.values)
    /\ ~get_applicable(stack)

====
